---- MODULE Spec2Model ----
(***************************************************************************)
(* Model of the OpenROV teleoperation node (teleop/src/teleop.cpp).        *)
(*                                                                         *)
(* The node owns one OpenROVTeleop object.  ros::spin() runs its two       *)
(* callbacks one at a time on a single thread: joyCallback for every       *)
(* joystick sample and timerCallback for every 0.2 s timer tick.           *)
(*                                                                         *)
(* Doubles are modelled as exact rationals <<n, d>> with d > 0 in lowest   *)
(* terms.  The float32 stores of the light value are modelled as a         *)
(* round-to-nearest-even onto a binary grid of FloatBits fraction bits.    *)
(***************************************************************************)
EXTENDS Integers, Sequences, FiniteSets, TLC

(***************************************************************************)
(* Bounds of the model.                                                    *)
(***************************************************************************)
MaxSamples == 3
FloatBits == 3

(***************************************************************************)
(* Rational arithmetic.                                                    *)
(***************************************************************************)
Abs(n) == IF n < 0 THEN -n ELSE n

RECURSIVE GCD(_, _)
GCD(a, b) == IF b = 0 THEN a ELSE GCD(b, a % b)

Norm(n, dd) ==
    LET g == GCD(Abs(n), dd) IN <<n \div g, dd \div g>>

R(n) == <<n, 1>>
Zero == R(0)
One == R(1)

RAdd(a, b) == Norm(a[1] * b[2] + b[1] * a[2], a[2] * b[2])
RNeg(a) == <<-a[1], a[2]>>
RSub(a, b) == RAdd(a, RNeg(b))
RMul(a, b) == Norm(a[1] * b[1], a[2] * b[2])
RDiv(a, b) ==
    IF b[1] > 0 THEN Norm(a[1] * b[2], a[2] * b[1])
                ELSE Norm(-(a[1] * b[2]), a[2] * (-b[1]))
RLt(a, b) == a[1] * b[2] < b[1] * a[2]
RLe(a, b) == a[1] * b[2] <= b[1] * a[2]
RAbs(a) == <<Abs(a[1]), a[2]>>
RMax(a, b) == IF RLt(a, b) THEN b ELSE a
RMin(a, b) == IF RLt(b, a) THEN b ELSE a

\* round() of <math.h>: nearest integer, halfway cases away from zero
Round(q) ==
    IF q[1] >= 0 THEN (2 * q[1] + q[2]) \div (2 * q[2])
                 ELSE -((2 * (-q[1]) + q[2]) \div (2 * q[2]))

Pow2(n) == 2 ^ n

\* conversion of a double to float: nearest representable value, ties to even
ToFloat(q) ==
    LET G   == Pow2(FloatBits)
        n   == q[1] * G
        f   == n \div q[2]
        rem == n - f * q[2]
        k   == IF 2 * rem < q[2] THEN f
               ELSE IF 2 * rem > q[2] THEN f + 1
               ELSE IF f % 2 = 0 THEN f ELSE f + 1
    IN  Norm(k, G)

(***************************************************************************)
(* Configuration set by the constructor.                                   *)
(***************************************************************************)
x_controllerAxis == 1
z_controllerAxis == 4
yaw_controllerAxis == 0
lightsAdjButton == 6
laserToggleButton == 4
x_gain == R(4)
z_gain == R(3)
yaw_gain == <<3, 10>>
d == <<9, 200>>

(***************************************************************************)
(* 3x3 matrices over the rationals, as tuples of rows.                     *)
(***************************************************************************)
\* the other two indices, in cyclic order
Nxt(i) == (i % 3) + 1
Nx2(i) == ((i + 1) % 3) + 1

\* signed cofactor of entry (i, j)
Cofactor(M, i, j) ==
    RSub(RMul(M[Nxt(i)][Nxt(j)], M[Nx2(i)][Nx2(j)]),
         RMul(M[Nxt(i)][Nx2(j)], M[Nx2(i)][Nxt(j)]))

Det3(M) ==
    RAdd(RAdd(RMul(M[1][1], Cofactor(M, 1, 1)),
              RMul(M[1][2], Cofactor(M, 1, 2))),
         RMul(M[1][3], Cofactor(M, 1, 3)))

\* the mutant forgets the transposition of the cofactor matrix
InverseNoTranspose(M) ==
    LET det == Det3(M)
        Row(i) == <<RDiv(Cofactor(M, i, 1), det), RDiv(Cofactor(M, i, 2), det),
                    RDiv(Cofactor(M, i, 3), det)>>
    IN  <<Row(1), Row(2), Row(3)>>

\* Eigen's inverse() of a fixed 3x3 matrix: adjugate over determinant
Inverse(M) ==
    LET det == Det3(M)
        Row(i) == <<RDiv(Cofactor(M, 1, i), det), RDiv(Cofactor(M, 2, i), det),
                    RDiv(Cofactor(M, 3, i), det)>>
    IN  <<Row(1), Row(2), Row(3)>>

MatVec(M, v) ==
    LET Dot(i) == RAdd(RAdd(RMul(M[i][1], v[1]), RMul(M[i][2], v[2])),
                       RMul(M[i][3], v[3]))
    IN  <<Dot(1), Dot(2), Dot(3)>>

\* thruster allocation matrix
A == << <<One, Zero, One>>,
        <<Zero, One, Zero>>,
        <<RNeg(d), Zero, d>> >>

\* A.inverse(); the matrix is the same on every call
AInv == Inverse(A)

(***************************************************************************)
(* Thrust curves and saturation.                                           *)
(***************************************************************************)
computePctThrustGraupner230860(fDes) ==
    IF RLt(Zero, fDes) THEN RDiv(fDes, <<147, 10>>)
    ELSE IF RLt(fDes, Zero) THEN RDiv(fDes, R(11))
    ELSE Zero

computePctThrustGraupner230357(fDes) ==
    IF RLt(Zero, fDes) THEN RDiv(fDes, <<147, 10>>)
    ELSE IF RLt(fDes, Zero) THEN RDiv(fDes, <<147, 10>>)
    ELSE Zero

\* the mutant tests the upper limit only
limitThrusterSaturationUpperOnly(Ppct_d, Vpct_d, Spct_d) ==
    LET max == RMax(RMax(Ppct_d, Vpct_d), Spct_d)
        min == RMin(RMin(Ppct_d, Vpct_d), Spct_d)
    IN  IF RLt(One, max) THEN RDiv(One, RMax(RAbs(min), max)) ELSE One

limitThrusterSaturation(Ppct_d, Vpct_d, Spct_d) ==
    LET max == RMax(RMax(Ppct_d, Vpct_d), Spct_d)
        min == RMin(RMin(Ppct_d, Vpct_d), Spct_d)
    IN  IF RLt(min, R(-1)) \/ RLt(One, max)
        THEN RDiv(One, RMax(RAbs(min), max))
        ELSE One

\* scale a thrust fraction and map it to the servo range
ToMs(pct, scaleFactor) == 1500 + Round(RMul(RMul(pct, scaleFactor), R(500)))

(***************************************************************************)
(* Joystick samples.  A sample is a sensor_msgs/Joy message: a sequence of *)
(* float axes and a sequence of integer buttons, both indexed from 0.      *)
(***************************************************************************)
NumAxes == 8
NumButtons == 11

\* stick positions <<forward, vertical, yaw>>; the joystick driver does not
\* enforce the [-1, 1] convention
Neutral == <<Zero, Zero, Zero>>
Forward == <<One, Zero, Zero>>
Sticks == { Neutral, Forward, <<R(-8), R(6), One>> }
LightAxes == { R(-6), Zero, One }
ButtonVals == {0, 1}

MkJoy(st, la, b, lens) ==
    [axes |-> [i \in 1..lens[1] |->
                  IF i - 1 = x_controllerAxis THEN st[1]
                  ELSE IF i - 1 = z_controllerAxis THEN st[2]
                  ELSE IF i - 1 = yaw_controllerAxis THEN st[3]
                  ELSE IF i - 1 = lightsAdjButton THEN la
                  ELSE Zero],
     buttons |-> [i \in 1..lens[2] |->
                  IF i - 1 = laserToggleButton THEN b ELSE 0]]

\* samples as long as the configured indices need
FullSamples ==
    { MkJoy(st, la, b, <<NumAxes, NumButtons>>) :
        st \in Sticks, la \in LightAxes, b \in ButtonVals }

\* samples too short for the light axis, for the vertical and the light axis,
\* and for the laser button
ShortSamples ==
    { MkJoy(Forward, R(-6), 1, <<5, NumButtons>>),
      MkJoy(Forward, R(-6), 0, <<2, NumButtons>>),
      MkJoy(Forward, R(-6), 1, <<NumAxes, 4>>) }

Samples == FullSamples \cup ShortSamples

\* what an out-of-range operator[] may return when it does not fault
GarbageAxes == { Zero, R(-3) }
GarbageButtons == { 0, 7 }

\* values that joy->axes[i] / joy->buttons[i] can yield (unchecked indexing)
AxisRead(joy, i) ==
    IF i < Len(joy.axes) THEN { joy.axes[i + 1] } ELSE GarbageAxes
ButtonRead(joy, i) ==
    IF i < Len(joy.buttons) THEN { joy.buttons[i + 1] } ELSE GarbageButtons

\* the <<forward, vertical, yaw>> triples that the three stick reads can yield
StickReads ==
    UNION { AxisRead(joy, x_controllerAxis) \X AxisRead(joy, z_controllerAxis)
                \X AxisRead(joy, yaw_controllerAxis) : joy \in Samples }

Needs == [axes |-> {x_controllerAxis, z_controllerAxis, yaw_controllerAxis,
                     lightsAdjButton},
          buttons |-> {laserToggleButton}]
IsShort(joy) ==
    \/ \E i \in Needs.axes : i >= Len(joy.axes)
    \/ \E i \in Needs.buttons : i >= Len(joy.buttons)

(***************************************************************************)
(* State.                                                                  *)
(***************************************************************************)
VARIABLES
    motor_cmds,       \* openrov::motortarget, motors[0..2]
    lightVal,         \* lightVal.data
    oldLightVal,
    laserToggle,      \* laserToggle.data
    oldLaserToggle,
    running,          \* FALSE once the process has faulted
    ev,               \* history: the last callback, what it saw and published
    calc,             \* history: the computation of the most recent sample
    cnt,              \* history: counters
    satIn,            \* input triple of the saturation check
    satScale          \* its result, <<>> until computed

vars == <<motor_cmds, lightVal, oldLightVal, laserToggle, oldLaserToggle,
          running, ev, calc, cnt, satIn, satScale>>

prog == <<motor_cmds, lightVal, oldLightVal, laserToggle, oldLaserToggle>>

Snapshot == [motor |-> motor_cmds, light |-> lightVal, laser |-> laserToggle]

NoEvent ==
    [kind |-> "init", short |-> FALSE, pressed |-> FALSE, al |-> Zero,
     pre |-> [motor |-> <<0, 0, 0>>, light |-> Zero, laser |-> 0],
     pubMotor |-> <<>>, pubLight |-> <<>>, pubLaser |-> <<>>,
     prevLight |-> <<>>, prevLaser |-> <<>>]

\* the constructor: it assigns the light and laser fields and leaves motor_cmds
\* as the generated message constructor made it, with motors zero-filled
InitNode ==
    /\ motor_cmds = <<0, 0, 0>>
    /\ lightVal = Zero
    /\ oldLightVal = Zero
    /\ laserToggle = 0
    /\ oldLaserToggle = 0
    /\ running = TRUE
    /\ ev = NoEvent
    /\ calc = <<>>
    /\ cnt = [samples |-> 0, pressed |-> 0, laserPubs |-> 0,
              run |-> 0, runToggles |-> 0,
              lastLight |-> <<>>, lastLaser |-> <<>>]

Init ==
    /\ InitNode
    /\ satIn = <<Zero, Zero, Zero>>
    /\ satScale = <<>>

(***************************************************************************)
(* The steps of joyCallback.                                               *)
(***************************************************************************)
\* the mutant leaves the starboard entry as it was
StoreMotorsPartial(old, Pms, Vms, Sms) == <<Pms, Vms, old[3]>>

StoreMotors(old, Pms, Vms, Sms) == <<Pms, Vms, Sms>>

\* the mutant omits the lower clamp
ClampLightUpperOnly(v) == IF RLt(One, v) THEN One ELSE v

ClampLight(v) ==
    LET u == IF RLt(One, v) THEN One ELSE v
    IN  IF RLt(u, Zero) THEN Zero ELSE u

\* the mutant publishes on every sample
LightChangedAlways(old, new) == TRUE

LightChanged(old, new) == old # new

\* the mutant switches the laser on whatever its state
FlipLaserOn(old) == 255

FlipLaser(old) == IF old = 0 THEN 255 ELSE 0

\* the mutant forgets to record the toggled state
CommitLaserStale(old, new) == old

CommitLaser(old, new) == new

\* the thruster section: wrench, allocation, thrust curves, saturation, encoding
Thrust(ax, az, ayaw) ==
    LET F     == <<RMul(x_gain, ax), RMul(z_gain, az), RMul(yaw_gain, ayaw)>>
        T     == MatVec(AInv, F)
        Ppct  == computePctThrustGraupner230860(T[1])
        Vpct  == computePctThrustGraupner230357(T[2])
        Spct  == computePctThrustGraupner230860(T[3])
        scale == limitThrusterSaturation(Ppct, Vpct, Spct)
    IN  [F |-> F, T |-> T, pct |-> <<Ppct, Vpct, Spct>>,
         scale |-> scale,
         ms |-> <<ToMs(Ppct, scale), ToMs(Vpct, scale), ToMs(Spct, scale)>>]

joyCallback ==
    /\ running
    /\ cnt.samples < MaxSamples
    /\ \E st \in StickReads :
       LET th == Thrust(st[1], st[2], st[3]) IN
       \E joy \in Samples :
       \E al \in AxisRead(joy, lightsAdjButton),
          b \in ButtonRead(joy, laserToggleButton) :
          /\ st[1] \in AxisRead(joy, x_controllerAxis)
          /\ st[2] \in AxisRead(joy, z_controllerAxis)
          /\ st[3] \in AxisRead(joy, yaw_controllerAxis)
          /\ LET
              light   == ClampLight(ToFloat(RAdd(lightVal, RMul(al, <<-1, 10>>))))
              pubL    == LightChanged(oldLightVal, light)
              pressed == b # 0
              toggle  == pressed /\ laserToggle = oldLaserToggle
              laser   == IF toggle THEN FlipLaser(oldLaserToggle) ELSE laserToggle
             IN
              /\ motor_cmds' = StoreMotors(motor_cmds, th.ms[1], th.ms[2], th.ms[3])
              /\ lightVal' = light
              /\ oldLightVal' = IF pubL THEN light ELSE oldLightVal
              /\ laserToggle' = laser
              /\ oldLaserToggle' =
                    IF toggle THEN CommitLaser(oldLaserToggle, laser)
                              ELSE oldLaserToggle
              /\ calc' = << th >>
              /\ ev' = [kind |-> "joy", short |-> IsShort(joy), pressed |-> pressed,
                        al |-> al, pre |-> Snapshot,
                        pubMotor |-> <<>>,
                        pubLight |-> IF pubL THEN <<light>> ELSE <<>>,
                        pubLaser |-> IF toggle THEN <<laser>> ELSE <<>>,
                        prevLight |-> cnt.lastLight,
                        prevLaser |-> cnt.lastLaser]
              /\ cnt' = [samples |-> cnt.samples + 1,
                         pressed |-> cnt.pressed + (IF pressed THEN 1 ELSE 0),
                         laserPubs |-> cnt.laserPubs + (IF toggle THEN 1 ELSE 0),
                         run |-> IF pressed THEN cnt.run + 1 ELSE 0,
                         runToggles |->
                            IF pressed
                            THEN cnt.runToggles + (IF toggle THEN 1 ELSE 0)
                            ELSE 0,
                         lastLight |-> IF pubL THEN <<light>> ELSE cnt.lastLight,
                         lastLaser |-> IF toggle THEN <<laser>> ELSE cnt.lastLaser]
    /\ UNCHANGED <<running, satIn, satScale>>

\* an out-of-range read of a too short sample faults and ends the process
joyCallbackFault ==
    /\ running
    /\ cnt.samples < MaxSamples
    /\ \E joy \in Samples :
          /\ IsShort(joy)
          /\ ev' = [NoEvent EXCEPT !.kind = "fault", !.short = TRUE,
                                   !.pre = Snapshot,
                                   !.prevLight = cnt.lastLight,
                                   !.prevLaser = cnt.lastLaser]
    /\ running' = FALSE
    /\ UNCHANGED <<prog, calc, cnt, satIn, satScale>>

timerCallback ==
    /\ running
    /\ ev' = [NoEvent EXCEPT !.kind = "tick", !.pre = Snapshot,
                             !.pubMotor = <<motor_cmds>>,
                             !.prevLight = cnt.lastLight,
                             !.prevLaser = cnt.lastLaser]
    /\ UNCHANGED <<prog, running, calc, cnt, satIn, satScale>>

Next == joyCallback \/ joyCallbackFault \/ timerCallback

Spec == Init /\ [][Next]_vars


(***************************************************************************)
(* limitThrusterSaturation on its own, over a grid of thrust fractions.    *)
(***************************************************************************)
SatVals == { <<-3, 1>>, <<-3, 2>>, <<-13, 10>>, <<-1, 1>>, <<-1, 2>>, <<0, 1>>,
             <<1, 5>>, <<1, 1>>, <<11, 10>>, <<3, 2>> }

InitSat ==
    /\ InitNode
    /\ satIn \in SatVals \X SatVals \X SatVals
    /\ satScale = <<>>

applySaturation ==
    /\ satScale = <<>>
    /\ satScale' = << limitThrusterSaturation(satIn[1], satIn[2], satIn[3]) >>
    /\ UNCHANGED <<prog, running, ev, calc, cnt, satIn>>

NextSat == applySaturation

SpecSat == InitSat /\ [][NextSat]_vars

(***************************************************************************)
(* Properties.                                                             *)
(***************************************************************************)
InUnit(q) == RLe(R(-1), q) /\ RLe(q, One)

\* C1: every motor command published by timerCallback has its three
\* components in 1000..2000, also on a tick before the first sample.
MotorCommandInRange ==
    ev.kind = "tick" => \A i \in 1..3 : ev.pubMotor[1][i] \in 1000..2000

\* C2: over a run of consecutive samples with the laser button pressed,
\* exactly one laser message is published.
LaserDebounce == cnt.run >= 1 => cnt.runToggles = 1

\* C3: once a sample has been processed, a tick publishes exactly the command
\* computed from the most recent sample, and a tick leaves the motor command,
\* the light value and the laser state as they were.
TickPublishesLatest ==
    ev.kind = "tick" =>
        /\ Snapshot = ev.pre
        /\ calc # <<>> => ev.pubMotor = << calc[1].ms >>

TickPublishesLatestWitness ==
    /\ ev.kind = "tick"
    /\ cnt.samples >= 2
    /\ ev.pubMotor = << calc[1].ms >>
    /\ calc[1].scale # One

\* C4: the scale returned by limitThrusterSaturation brings every fraction
\* into [-1, 1], and is exactly 1 when every fraction is already there.
SaturationInvariant ==
    satScale # <<>> =>
        /\ \A i \in 1..3 : InUnit(RMul(satIn[i], satScale[1]))
        /\ (\A i \in 1..3 : InUnit(satIn[i])) => satScale[1] = One

SaturationInvariantWitness ==
    /\ satIn = << <<1, 5>>, <<1, 1>>, <<-13, 10>> >>
    /\ satScale = << <<10, 13>> >>

\* C5: the light value left by joyCallback, and every light value published,
\* lies in [0, 1].
DimmerClamp ==
    /\ RLe(Zero, lightVal) /\ RLe(lightVal, One)
    /\ ev.pubLight # <<>> => RLe(Zero, ev.pubLight[1]) /\ RLe(ev.pubLight[1], One)

DimmerClampWitness ==
    /\ ev.kind = "joy"
    /\ ev.al = R(-6)
    /\ RLt(One, RAdd(ev.pre.light, <<6, 10>>))
    /\ lightVal = One
    /\ ev.pubLight = << One >>

\* C6: joyCallback publishes a light message exactly when the clamped light
\* value differs from the value last published (0 before any), and what it
\* publishes is that new value.
PrevLight == IF ev.prevLight = <<>> THEN Zero ELSE ev.prevLight[1]

LightChangeTriggered ==
    ev.kind = "joy" =>
        /\ (ev.pubLight # <<>>) <=> (lightVal # PrevLight)
        /\ ev.pubLight # <<>> => ev.pubLight = << lightVal >>

LightChangeTriggeredWitness ==
    /\ ev.kind = "joy"
    /\ ev.al = R(-6)
    /\ ev.prevLight = << One >>
    /\ lightVal = One
    /\ ev.pubLight = <<>>

\* C7: a sample shorter than a configured index needs is reported and changes
\* nothing: motor command, light value and laser state stay as they were,
\* nothing is published, and the process keeps running.
ShortSampleSuppressed ==
    ev.short =>
        /\ running
        /\ Snapshot = ev.pre
        /\ ev.pubLight = <<>> /\ ev.pubLaser = <<>>

PrevLaser == IF ev.prevLaser = <<>> THEN 0 ELSE ev.prevLaser[1]

LaserToggleOnly ==
    /\ laserToggle \in {0, 255}
    /\ ev.pubLaser # <<>> => ev.pubLaser[1] = 255 - PrevLaser
    /\ (ev.kind = "joy" /\ ~ev.pressed) =>
            ev.pubLaser = <<>> /\ laserToggle = ev.pre.laser
    /\ (ev.kind = "joy" /\ ev.pressed /\ cnt.run = 1 /\ ev.prevLaser # <<>>) =>
            ev.pubLaser # <<>>

LaserToggleOnlyWitness ==
    /\ ev.kind = "joy"
    /\ ev.pressed
    /\ cnt.run = 1
    /\ ev.prevLaser = << 255 >>
    /\ ev.pubLaser = << 0 >>

====
